---- MODULE Spec2Model ----
(***************************************************************************)
(* Submission statistics cache of the online judge:                        *)
(*   judge/utils/problems.py  ID-set cache, result distribution aggregator,*)
(*                            hot_problems                                 *)
(*   judge/admin.py           SubmissionAdmin.recalculate_score / judge    *)
(* Points are kept in tenths of a point (round(x, 1) keeps one decimal).   *)
(***************************************************************************)
EXTENDS Integers, Sequences, FiniteSets, TLC

VARIABLES
    subs,       \* Submission table: sequence of rows, the id is the index
    csubs,      \* ContestSubmission table (participation.submissions)
    cache,      \* django.core.cache: key -> entry
    cacheUp,    \* whether the cache backend answers
    events,     \* what event.post has published, in order
    ncalls,     \* calls started so far (bounds the run)
    apc,        \* add_to_result_data: position of each worker's call
    aresult,    \* add_to_result_data: argument result
    adelta,     \* add_to_result_data: argument delta
    adata,      \* add_to_result_data: local result_data
    aret,       \* add_to_result_data: the line the last call returned at
    rpc,        \* ID-set read: position of each worker's call
    rfn,        \* ID-set read: the function called
    rid,        \* ID-set read: profile.id or participation.id
    rresult,    \* ID-set read: local result
    rret,       \* ID-set read: what the last call returned, and how
    spc,        \* recalculate_score: position of the call
    srequest,   \* recalculate_score: request.user's permissions and profile
    sqs,        \* recalculate_score: queryset, the ids of its submissions
    slist,      \* recalculate_score: submissions still to be rescored
    snum,       \* recalculate_score: len(submissions)
    sprofiles,  \* recalculate_score: profiles still to be gone through
    messages,   \* what message_user has reported, in order
    pointsCalls, \* profiles whose calculate_points() has run
    jpc,        \* judge: position of the call
    jrequest,   \* judge: request.user's permissions and profile
    jqs,        \* judge: queryset, the ids of its submissions
    jlist,      \* judge: submissions still to be gone through
    successful, \* judge: local successful
    judged,     \* submissions whose judge() has been called
    callArgs,   \* a function applied on its own: its arguments
    callRet,    \* a function applied on its own: what it returned
    problemTable, \* Problem table: id -> the fields hot_problems reads
    hpc,        \* hot_problems: position of the call
    hduration,  \* hot_problems: argument duration
    hlimit,     \* hot_problems: argument limit
    hmx,        \* hot_problems: local mx
    hret,       \* hot_problems: what the call returned, and how
    hlog        \* hot_problems: the calls that have ended, in order

storeVars == <<subs, csubs>>

addVars == <<apc, aresult, adelta, adata, aret>>

readVars == <<rpc, rfn, rid, rresult, rret>>

adminVars ==
    <<spc, srequest, sqs, slist, snum, sprofiles, messages, pointsCalls>>

judgeVars == <<jpc, jrequest, jqs, jlist, successful, judged>>

pureVars == <<callArgs, callRet>>

hotVars == <<problemTable, hpc, hduration, hlimit, hmx, hret, hlog>>

vars ==
    <<storeVars, cache, cacheUp, events, ncalls, addVars, readVars, adminVars,
      judgeVars, pureVars, hotVars>>

(* ------------------------------ bounds -------------------------------- *)

MaxAddCalls == 2
MaxStatSubs == 2
MaxReads == 1
MaxRows == 2

Workers == {"w1", "w2"}
Users == {1, 2}
Participations == {1}

\* python's None
None == "None"

(* ------------------------------- cache -------------------------------- *)

GlobalKey == <<"global_submission_result_data">>

UserCompleteKey(id) == <<"user_complete", id>>

UserAttemptedKey(id) == <<"user_attempted", id>>

ContestCompleteKey(id) == <<"contest_complete", id>>

ContestAttemptedKey(id) == <<"contest_attempted", id>>

\* '%d' % duration.total_seconds(): the whole seconds of a duration, which
\* is kept in half seconds
WholeSeconds(duration) == duration \div 2

\* 'hot_problems:%d:%d' % (duration.total_seconds(), limit)
HotKey(duration, limit) == <<"hot_problems", WholeSeconds(duration), limit>>

\* the durations, in half seconds, and limits hot_problems is called with
HotDurations == {1}

\* durations of 1 and of 1.5 seconds
HotCacheDurations == {2, 3}

HotLimits == {1, 2}

Keys ==
    {GlobalKey}
    \cup {HotKey(d, l) : d \in HotDurations \cup HotCacheDurations,
                          l \in HotLimits}
    \cup {UserCompleteKey(u) : u \in Users}
    \cup {UserAttemptedKey(u) : u \in Users}
    \cup {ContestCompleteKey(c) : c \in Participations}
    \cup {ContestAttemptedKey(c) : c \in Participations}

\* a local variable of a call that is not under way or has not reached the
\* assignment, and one that holds a value
Unbound == [bound |-> FALSE]

Local(value) == [bound |-> TRUE, value |-> value]

\* a key with no entry: cache.get answers None
Absent == [present |-> FALSE]

\* cache.set(key, value, timeout): the entry starts a new lifetime
Entry(value) == [present |-> TRUE, fresh |-> TRUE, value |-> value]

CacheSet(c, key, value) == [c EXCEPT ![key] = Entry(value)]

CacheDelete(c, key) == [c EXCEPT ![key] = Absent]

(* ------------------------ result distribution ------------------------- *)

RESULT_TYPES ==
    << [code |-> "AC",  name |-> "Accepted",      results |-> {"AC"}],
       [code |-> "WA",  name |-> "Wrong",         results |-> {"WA"}],
       [code |-> "CE",  name |-> "Compile Error", results |-> {"CE"}],
       [code |-> "TLE", name |-> "Timeout",       results |-> {"TLE"}],
       [code |-> "ERR", name |-> "Error",
        results |-> {"MLE", "OLE", "IR", "RTE", "AB", "IE"}] >>

ResultCodes == UNION {RESULT_TYPES[i].results : i \in DOMAIN RESULT_TYPES}

RESULT_TO_TYPE ==
    [status \in ResultCodes |->
        RESULT_TYPES[CHOOSE i \in DOMAIN RESULT_TYPES :
                        status \in RESULT_TYPES[i].results].code]

RECURSIVE SumOver(_, _)
SumOver(f, S) ==
    IF S = {} THEN 0
    ELSE LET x == CHOOSE y \in S : TRUE
         IN  f[x] + SumOver(f, S \ {x})

\* submissions.values('result').annotate(count=Count('result')): one row per
\* result value present; COUNT(result) counts no NULL, so the None row is 0
RawCounts(store) ==
    LET present == {store[i].result : i \in DOMAIN store}
    IN  [r \in present |->
            IF r = None THEN 0
            ELSE Cardinality({i \in DOMAIN store : store[i].result = r})]

\* defaultdict(int, raw)[status]
DefaultGet(raw, status) == IF status \in DOMAIN raw THEN raw[status] ELSE 0

\* as get_result_data, but leaving out the categories that count nothing
get_result_dataNonZero(store) ==
    LET raw == RawCounts(store)
        all == [i \in DOMAIN RESULT_TYPES |->
                    [code  |-> RESULT_TYPES[i].code,
                     name  |-> RESULT_TYPES[i].name,
                     count |-> SumOver([s \in RESULT_TYPES[i].results |->
                                            DefaultGet(raw, s)],
                                       RESULT_TYPES[i].results)]]
        NonZero(category) == category.count # 0
    IN  [categories |-> SelectSeq(all, NonZero),
         total |-> SumOver(raw, DOMAIN raw)]

\* as get_result_data, but with every row counted in the total
get_result_dataAllRows(store) ==
    LET raw == RawCounts(store)
    IN  [categories |->
            [i \in DOMAIN RESULT_TYPES |->
                [code  |-> RESULT_TYPES[i].code,
                 name  |-> RESULT_TYPES[i].name,
                 count |-> SumOver([s \in RESULT_TYPES[i].results |->
                                        DefaultGet(raw, s)],
                                   RESULT_TYPES[i].results)]],
         total |-> Len(store)]

get_result_data(store) ==
    LET raw == RawCounts(store)
    IN  [categories |->
            [i \in DOMAIN RESULT_TYPES |->
                [code  |-> RESULT_TYPES[i].code,
                 name  |-> RESULT_TYPES[i].name,
                 count |-> SumOver([s \in RESULT_TYPES[i].results |->
                                        DefaultGet(raw, s)],
                                   RESULT_TYPES[i].results)]],
         total |-> SumOver(raw, DOMAIN raw)]

\* lines 118-123 without line 122
ApplyToCategoryNoTotal(result_data, code, delta) ==
    [result_data EXCEPT
        !.categories = [i \in DOMAIN result_data.categories |->
            IF /\ result_data.categories[i].code = code
               /\ \A j \in 1..(i - 1) : result_data.categories[j].code # code
            THEN [result_data.categories[i] EXCEPT !.count = @ + delta]
            ELSE result_data.categories[i]]]

\* lines 118-123: the first category whose code matches gets the delta, and
\* so does the total
ApplyToCategory(result_data, code, delta) ==
    LET hit == \E i \in DOMAIN result_data.categories :
                    result_data.categories[i].code = code
    IN  [result_data EXCEPT
            !.categories = [i \in DOMAIN result_data.categories |->
                IF /\ result_data.categories[i].code = code
                   /\ \A j \in 1..(i - 1) :
                        result_data.categories[j].code # code
                THEN [result_data.categories[i] EXCEPT !.count = @ + delta]
                ELSE result_data.categories[i]],
            !.total = IF hit THEN @ + delta ELSE @]

\* event.post('submissions', {...})
StatsEvent(result_type, delta) ==
    [channel |-> "submissions",
     message |-> [type |-> "change-global-stats",
                  result_type |-> result_type,
                  delta |-> delta]]

\* results and deltas the callers pass
ArgResults == {"AC", "RTE", None, "SC"}

Deltas == {-1, 1}

\* the call returns: its frame is gone
AddReturn(w, line) ==
    /\ apc' = [apc EXCEPT ![w] = "idle"]
    /\ aret' = [aret EXCEPT ![w] = line]
    /\ aresult' = [aresult EXCEPT ![w] = None]
    /\ adelta' = [adelta EXCEPT ![w] = 0]
    /\ adata' = [adata EXCEPT ![w] = None]

\* the call is entered: add_to_result_data(result, delta)
AddEnter(w, result, delta) ==
    /\ apc[w] = "idle"
    /\ ncalls < MaxAddCalls
    /\ ncalls' = ncalls + 1
    /\ apc' = [apc EXCEPT ![w] = "entered"]
    /\ aresult' = [aresult EXCEPT ![w] = result]
    /\ adelta' = [adelta EXCEPT ![w] = delta]
    /\ UNCHANGED <<storeVars, hotVars, pureVars, judgeVars, adminVars, cache,
                   cacheUp, events, adata, aret, readVars>>

\* lines 110-116 with the guard on the result left out
AddGetNoTypeGuard(w) ==
    /\ apc[w] = "entered"
    /\ IF ~cache[GlobalKey].present
       THEN AddReturn(w, 116)
       ELSE /\ apc' = [apc EXCEPT ![w] = "got"]
            /\ adata' = [adata EXCEPT ![w] = cache[GlobalKey].value]
            /\ UNCHANGED <<aresult, adelta, aret>>
    /\ UNCHANGED <<storeVars, hotVars, pureVars, judgeVars, adminVars, cache,
                   cacheUp, events, ncalls, readVars>>

\* lines 110-116 with a miss answered by a fresh aggregate
AddGetSynthesize(w) ==
    /\ apc[w] = "entered"
    /\ IF aresult[w] \notin DOMAIN RESULT_TO_TYPE
       THEN AddReturn(w, 111)
       ELSE /\ apc' = [apc EXCEPT ![w] = "got"]
            /\ adata' = [adata EXCEPT ![w] =
                    IF cache[GlobalKey].present THEN cache[GlobalKey].value
                    ELSE get_result_data(<<>>)]
            /\ UNCHANGED <<aresult, adelta, aret>>
    /\ UNCHANGED <<storeVars, hotVars, pureVars, judgeVars, adminVars, cache,
                   cacheUp, events, ncalls, readVars>>

\* lines 110-116: an unmapped result returns; cache.get; a miss returns
AddGet(w) ==
    /\ apc[w] = "entered"
    /\ IF \/ aresult[w] \notin DOMAIN RESULT_TO_TYPE
          \/ ~cache[GlobalKey].present
       THEN AddReturn(w, IF aresult[w] \notin DOMAIN RESULT_TO_TYPE
                         THEN 111 ELSE 116)
       ELSE /\ apc' = [apc EXCEPT ![w] = "got"]
            /\ adata' = [adata EXCEPT ![w] = cache[GlobalKey].value]
            /\ UNCHANGED <<aresult, adelta, aret>>
    /\ UNCHANGED <<storeVars, hotVars, pureVars, judgeVars, adminVars, cache,
                   cacheUp, events, ncalls, readVars>>

\* lines 118-125 with the total left as it was
AddSetNoTotal(w) ==
    /\ apc[w] = "got"
    /\ LET code == RESULT_TO_TYPE[aresult[w]]
           data == ApplyToCategoryNoTotal(adata[w], code, adelta[w])
       IN  /\ adata' = [adata EXCEPT ![w] = data]
           /\ cache' = CacheSet(cache, GlobalKey, data)
    /\ apc' = [apc EXCEPT ![w] = "written"]
    /\ UNCHANGED <<storeVars, hotVars, pureVars, judgeVars, adminVars, cacheUp,
                   events, ncalls, aresult, adelta, aret, readVars>>

\* lines 118-125 as one read-modify-write of the entry as it is now
AddSetOnCurrent(w) ==
    /\ apc[w] = "got"
    /\ LET code == RESULT_TO_TYPE[aresult[w]]
           base == IF cache[GlobalKey].present THEN cache[GlobalKey].value
                   ELSE adata[w]
           data == ApplyToCategory(base, code, adelta[w])
       IN  /\ adata' = [adata EXCEPT ![w] = data]
           /\ cache' = CacheSet(cache, GlobalKey, data)
    /\ apc' = [apc EXCEPT ![w] = "written"]
    /\ UNCHANGED <<storeVars, hotVars, pureVars, judgeVars, adminVars, cacheUp,
                   events, ncalls, aresult, adelta, aret, readVars>>

\* lines 118-125: the local aggregate is changed and written back
AddSet(w) ==
    /\ apc[w] = "got"
    /\ LET code == RESULT_TO_TYPE[aresult[w]]
           data == ApplyToCategory(adata[w], code, adelta[w])
       IN  /\ adata' = [adata EXCEPT ![w] = data]
           /\ cache' = CacheSet(cache, GlobalKey, data)
    /\ apc' = [apc EXCEPT ![w] = "written"]
    /\ UNCHANGED <<storeVars, hotVars, pureVars, judgeVars, adminVars, cacheUp,
                   events, ncalls, aresult, adelta, aret, readVars>>

\* lines 127-131 publishing the raw result code
AddPostRawCode(w) ==
    /\ apc[w] = "written"
    /\ events' = Append(events, StatsEvent(aresult[w], adelta[w]))
    /\ AddReturn(w, 131)
    /\ UNCHANGED <<storeVars, hotVars, pureVars, judgeVars, adminVars, cache,
                   cacheUp, ncalls, readVars>>

\* lines 127-131: the event is published and the call returns
AddPost(w) ==
    /\ apc[w] = "written"
    /\ events' = Append(events,
                        StatsEvent(RESULT_TO_TYPE[aresult[w]], adelta[w]))
    /\ AddReturn(w, 131)
    /\ UNCHANGED <<storeVars, hotVars, pureVars, judgeVars, adminVars, cache,
                   cacheUp, ncalls, readVars>>

\* time passes: an entry is no longer at the start of its lifetime
Age(key) ==
    /\ cache[key].present
    /\ cache[key].fresh
    /\ cache' = [cache EXCEPT ![key].fresh = FALSE]
    /\ UNCHANGED <<storeVars, hotVars, pureVars, judgeVars, adminVars, cacheUp,
                   events, ncalls, addVars, readVars>>

\* the timeout given to cache.set has run out, and the backend starts the
\* lifetime of the entry again
ExpireRenews(key) ==
    /\ cache[key].present
    /\ ~cache[key].fresh
    /\ cache' = [cache EXCEPT ![key].fresh = TRUE]
    /\ UNCHANGED <<storeVars, hotVars, pureVars, judgeVars, adminVars, cacheUp,
                   events, ncalls, addVars, readVars>>

\* the timeout given to cache.set has run out: the backend drops the entry
Expire(key) ==
    /\ cache[key].present
    /\ ~cache[key].fresh
    /\ cache' = CacheDelete(cache, key)
    /\ UNCHANGED <<storeVars, hotVars, pureVars, judgeVars, adminVars, cacheUp,
                   events, ncalls, addVars, readVars>>

\* no add_to_result_data call is under way, none has returned
AddersIdle ==
    /\ events = <<>>
    /\ apc = [w \in Workers |-> "idle"]
    /\ aresult = [w \in Workers |-> None]
    /\ adelta = [w \in Workers |-> 0]
    /\ adata = [w \in Workers |-> None]
    /\ aret = [w \in Workers |-> 0]

\* no admin action is under way, none has run
AdminIdle ==
    /\ spc = "idle"
    /\ srequest = Unbound
    /\ sqs = {}
    /\ slist = <<>>
    /\ snum = 0
    /\ sprofiles = {}
    /\ messages = <<>>
    /\ pointsCalls = {}
    /\ jpc = "idle"
    /\ jrequest = None
    /\ jqs = {}
    /\ jlist = <<>>
    /\ successful = 0
    /\ judged = {}

\* no ID-set read is under way, none has returned
ReadersIdle ==
    /\ rpc = [w \in Workers |-> "idle"]
    /\ rfn = [w \in Workers |-> None]
    /\ rid = [w \in Workers |-> 0]
    /\ rresult = [w \in Workers |-> Unbound]
    /\ rret = [w \in Workers |-> [via |-> None]]

\* no function is applied on its own
PureIdle ==
    /\ callArgs = [fn |-> None]
    /\ callRet = [returned |-> FALSE]

\* no hot_problems call is under way, none has returned
HotIdle ==
    /\ problemTable = <<>>
    /\ hpc = "idle"
    /\ hduration = 0
    /\ hlimit = 0
    /\ hmx = 0
    /\ hret = [via |-> None]
    /\ hlog = <<>>

\* a Submission row of which only the result matters here
StatRow(result) ==
    [user |-> 1, problem |-> 1, result |-> result, points |-> 0,
     case_points |-> 0, case_total |-> 0]

StatResults == <<"AC", "RTE", None>>

\* stores of at most MaxStatSubs rows, one per multiset of results
StatStores ==
    {s \in UNION {[1..n -> {StatRow(StatResults[k]) : k \in DOMAIN StatResults}]
                    : n \in 0..MaxStatSubs} :
        \A i \in 1..(Len(s) - 1) :
            \E k, l \in DOMAIN StatResults :
                /\ k <= l
                /\ s[i].result = StatResults[k]
                /\ s[i + 1].result = StatResults[l]}

\* the aggregate is in the cache (put there by its reader) or it is not
StatsInit ==
    /\ subs \in StatStores
    /\ cacheUp = TRUE
    /\ \E g \in {Absent, Entry(get_result_data(subs))} :
            cache = [k \in Keys |-> IF k = GlobalKey THEN g ELSE Absent]
    /\ csubs = <<>>
    /\ ncalls = 0
    /\ AddersIdle
    /\ ReadersIdle
    /\ AdminIdle
    /\ PureIdle
    /\ HotIdle

StatsNext ==
    \/ \E w \in Workers, r \in ArgResults, d \in Deltas : AddEnter(w, r, d)
    \/ \E w \in Workers : AddGet(w)
    \/ \E w \in Workers : AddSet(w)
    \/ \E w \in Workers : AddPost(w)
    \/ Age(GlobalKey)
    \/ Expire(GlobalKey)

StatsSpec == StatsInit /\ [][StatsNext]_vars

(* ----------------- result distribution: the compute ------------------- *)

\* the most rows of a queryset handed to get_result_data
MaxResultSubs == 3

\* Submission.result: the codes of RESULT_TYPES, and None while pending
AllResults ==
    <<"AC", "WA", "CE", "TLE", "MLE", "OLE", "IR", "RTE", "AB", "IE", None>>

\* querysets of at most MaxResultSubs rows, one per multiset of results
ResultStores ==
    {s \in UNION {[1..n -> {StatRow(AllResults[k]) : k \in DOMAIN AllResults}]
                    : n \in 0..MaxResultSubs} :
        \A i \in 1..(Len(s) - 1) :
            \E k, l \in DOMAIN AllResults :
                /\ k <= l
                /\ s[i].result = AllResults[k]
                /\ s[i + 1].result = AllResults[l]}

\* get_result_data(submissions)
ResultDataCall ==
    /\ callArgs.fn = "get_result_data"
    /\ ~callRet.returned
    /\ callRet' = [returned |-> TRUE,
                   value |-> get_result_data(callArgs.submissions)]
    /\ UNCHANGED <<storeVars, hotVars, cache, cacheUp, events, ncalls, addVars,
                   readVars, adminVars, judgeVars, hotVars, callArgs>>

ResultDataInit ==
    /\ \E store \in ResultStores :
            callArgs = [fn |-> "get_result_data", submissions |-> store]
    /\ callRet = [returned |-> FALSE]
    /\ subs = <<>>
    /\ csubs = <<>>
    /\ cache = [k \in Keys |-> Absent]
    /\ cacheUp = TRUE
    /\ ncalls = 0
    /\ AddersIdle
    /\ ReadersIdle
    /\ AdminIdle
    /\ HotIdle

ResultDataNext == ResultDataCall

ResultDataSpec == ResultDataInit /\ [][ResultDataNext]_vars

(* ---------------------------- ID-set cache ---------------------------- *)

Problems == {1, 2}

\* Problem.points, in tenths
ProblemPoints == [p \in Problems |-> IF p = 1 THEN 100 ELSE 50]

\* ContestProblem.points of the contest problem of each problem, in tenths
ContestProblemPoints == [p \in Problems |-> IF p = 1 THEN 50 ELSE 100]

PointValues == {0, 50, 100}

\* a Submission row
Row(user, problem, result, points, case_points, case_total) ==
    [user |-> user, problem |-> problem, result |-> result, points |-> points,
     case_points |-> case_points, case_total |-> case_total]

\* a ContestSubmission row: its participation, its contest problem's problem,
\* its own points, and the result of its submission
ContestRow(participation, problem, result, points) ==
    [participation |-> participation, problem |-> problem, result |-> result,
     points |-> points]

\* SQL MAX over a non-empty set
SetMax(S) == CHOOSE m \in S : \A x \in S : x <= m

SetMin(S) == CHOOSE m \in S : \A x \in S : m <= x

\* line 43 with the result filter left out
UserCompletedAnyResult(store, id) ==
    {store[i].problem :
        i \in {j \in DOMAIN store :
                /\ store[j].user = id
                /\ store[j].points = ProblemPoints[store[j].problem]}}

\* lines 43-44: Submission.objects.filter(user=profile, result='AC',
\* points=F('problem__points')).values_list('problem_id').distinct()
UserCompletedQuery(store, id) ==
    {store[i].problem :
        i \in {j \in DOMAIN store :
                /\ store[j].user = id
                /\ store[j].result = "AC"
                /\ store[j].points = ProblemPoints[store[j].problem]}}

\* lines 33-34: participation.submissions.filter(submission__result='AC',
\* points=F('problem__points')).values_list('problem__problem__id').distinct()
ContestCompletedQuery(cstore, id) ==
    {cstore[i].problem :
        i \in {j \in DOMAIN cstore :
                /\ cstore[j].participation = id
                /\ cstore[j].result = "AC"
                /\ cstore[j].points = ContestProblemPoints[cstore[j].problem]}}

\* lines 53-57 and 66-70 taking the least points of each group
AttemptedDictOfMin(rows, maxPoints) ==
    LET groups == {rows[i].problem : i \in DOMAIN rows}
        best(p) == SetMin({rows[i].points :
                            i \in {j \in DOMAIN rows : rows[j].problem = p}})
    IN  [p \in {q \in groups : best(q) < maxPoints[q]} |->
            [achieved_points |-> best(p), max_points |-> maxPoints[p]]]

\* lines 53-57 and 66-70: values_list(problem id, problem points) groups the
\* rows, annotate(points=Max('points')) takes each group's greatest points,
\* filter(points__lt=F('problem__points')) keeps the groups below the
\* problem's points; the dict maps the problem id to the pair
AttemptedDict(rows, maxPoints) ==
    LET groups == {rows[i].problem : i \in DOMAIN rows}
        best(p) == SetMax({rows[i].points :
                            i \in {j \in DOMAIN rows : rows[j].problem = p}})
    IN  [p \in {q \in groups : best(q) < maxPoints[q]} |->
            [achieved_points |-> best(p), max_points |-> maxPoints[p]]]

\* the rows of a table a predicate keeps, in order
RECURSIVE SelectRows(_, _)
SelectRows(table, keep) ==
    IF table = <<>> THEN <<>>
    ELSE IF Head(table) \in keep
         THEN <<Head(table)>> \o SelectRows(Tail(table), keep)
         ELSE SelectRows(Tail(table), keep)

\* lines 67-70: over Submission.objects.filter(user=profile)
UserAttemptedQuery(store, id) ==
    AttemptedDict(
        SelectRows(store, {store[i] : i \in {j \in DOMAIN store :
                                                store[j].user = id}}),
        ProblemPoints)

\* lines 54-57: over participation.submissions
ContestAttemptedQuery(cstore, id) ==
    AttemptedDict(
        SelectRows(cstore, {cstore[i] : i \in {j \in DOMAIN cstore :
                                            cstore[j].participation = id}}),
        ContestProblemPoints)

ReadFunctions ==
    {"contest_completed_ids", "user_completed_ids", "contest_attempted_ids",
     "user_attempted_ids"}

\* the identities a function is called with
ReadIds(fn) ==
    IF fn \in {"user_completed_ids", "user_attempted_ids"}
    THEN Users ELSE Participations

\* lines 30, 40, 50, 63 with the id left out of the key
ReadKeyOfFunction(fn, id) ==
    CASE fn = "contest_completed_ids" -> ContestCompleteKey(1)
      [] fn = "user_completed_ids"    -> UserCompleteKey(1)
      [] fn = "contest_attempted_ids" -> ContestAttemptedKey(1)
      [] fn = "user_attempted_ids"    -> UserAttemptedKey(1)

\* lines 30, 40, 50, 63: the key of a call
ReadKey(fn, id) ==
    CASE fn = "contest_completed_ids" -> ContestCompleteKey(id)
      [] fn = "user_completed_ids"    -> UserCompleteKey(id)
      [] fn = "contest_attempted_ids" -> ContestAttemptedKey(id)
      [] fn = "user_attempted_ids"    -> UserAttemptedKey(id)

\* lines 33, 43, 53, 66: what a call computes on a miss
ReadQueryOf(fn, id) ==
    CASE fn = "contest_completed_ids" -> ContestCompletedQuery(csubs, id)
      [] fn = "user_completed_ids"    -> UserCompletedQuery(subs, id)
      [] fn = "contest_attempted_ids" -> ContestAttemptedQuery(csubs, id)
      [] fn = "user_attempted_ids"    -> UserAttemptedQuery(subs, id)

\* the call ends: it returns `value' (via "hit" or "computed") or an
\* exception leaves it (via "raised")
ReadReturn(w, via, value) ==
    /\ rret' = [rret EXCEPT ![w] =
                    [via |-> via, fn |-> rfn[w], id |-> rid[w],
                     value |-> value]]
    /\ rpc' = [rpc EXCEPT ![w] = "idle"]
    /\ rfn' = [rfn EXCEPT ![w] = None]
    /\ rid' = [rid EXCEPT ![w] = 0]
    /\ rresult' = [rresult EXCEPT ![w] = Unbound]

\* the call is entered, being one of at most `most' calls: fn(profile) or
\* fn(participation)
ReadStart(w, fn, id, most) ==
    /\ rpc[w] = "idle"
    /\ ncalls < most
    /\ ncalls' = ncalls + 1
    /\ rpc' = [rpc EXCEPT ![w] = "entered"]
    /\ rfn' = [rfn EXCEPT ![w] = fn]
    /\ rid' = [rid EXCEPT ![w] = id]
    /\ rret' = [rret EXCEPT ![w] = [via |-> None]]
    /\ UNCHANGED <<storeVars, hotVars, pureVars, judgeVars, adminVars, cache,
                   cacheUp, events, addVars, rresult>>

ReadEnter(w, fn, id) == ReadStart(w, fn, id, MaxReads)

\* lines 31-32, 41-42, 51-52, 64-65: cache.get(key); no try surrounds it. A
\* backend that is down raises out of cache.get or (a backend that swallows
\* its errors) answers None
ReadGet(w) ==
    /\ rpc[w] = "entered"
    /\ LET key == ReadKey(rfn[w], rid[w])
       IN  \/ /\ cacheUp
              /\ cache[key].present
              /\ ReadReturn(w, "hit", cache[key].value)
           \/ /\ ~cacheUp \/ ~cache[key].present
              /\ rpc' = [rpc EXCEPT ![w] = "missed"]
              /\ UNCHANGED <<rfn, rid, rresult, rret>>
           \/ /\ ~cacheUp
              /\ ReadReturn(w, "raised", None)
    /\ UNCHANGED <<storeVars, hotVars, pureVars, judgeVars, adminVars, cache,
                   cacheUp, events, ncalls, addVars>>

\* lines 33-34, 43-44, 53-57, 66-70: the query runs on the store
ReadQuery(w) ==
    /\ rpc[w] = "missed"
    /\ rresult' = [rresult EXCEPT ![w] = Local(ReadQueryOf(rfn[w], rid[w]))]
    /\ rpc' = [rpc EXCEPT ![w] = "computed"]
    /\ UNCHANGED <<storeVars, hotVars, pureVars, judgeVars, adminVars, cache,
                   cacheUp, events, ncalls, addVars, rfn, rid, rret>>

\* lines 35-36, 45-46, 58-59, 71-72: cache.set(key, result, 86400) and
\* return; a backend that is down raises out of cache.set or drops the write
ReadSet(w) ==
    /\ rpc[w] = "computed"
    /\ \/ /\ cacheUp
          /\ cache' = CacheSet(cache, ReadKey(rfn[w], rid[w]),
                            rresult[w].value)
          /\ ReadReturn(w, "computed", rresult[w].value)
       \/ /\ ~cacheUp
          /\ UNCHANGED cache
          /\ ReadReturn(w, "computed", rresult[w].value)
       \/ /\ ~cacheUp
          /\ UNCHANGED cache
          /\ ReadReturn(w, "raised", None)
    /\ UNCHANGED <<storeVars, hotVars, pureVars, judgeVars, adminVars, cacheUp,
                   events, ncalls, addVars>>

\* the cache backend stops answering
BackendDown ==
    /\ cacheUp
    /\ cacheUp' = FALSE
    /\ UNCHANGED <<storeVars, hotVars, pureVars, judgeVars, adminVars, cache,
                   events, ncalls, addVars, readVars>>

\* the cache backend answers again
BackendUp ==
    /\ ~cacheUp
    /\ cacheUp' = TRUE
    /\ UNCHANGED <<storeVars, hotVars, pureVars, judgeVars, adminVars, cache,
                   events, ncalls, addVars, readVars>>

ReadResults == {"AC", "WA"}

\* the Submission rows and ContestSubmission rows the reads are run on
ReadRows ==
    {Row(u, p, r, pts, 0, 0) :
        u \in Users, p \in Problems, r \in ReadResults, pts \in PointValues}

ContestReadRows ==
    {ContestRow(c, p, r, pts) :
        c \in Participations, p \in Problems, r \in ReadResults,
        pts \in PointValues}

\* orders the rows of a table, so that one table stands for its reorderings
RowRank(row) ==
    1000 * row.problem + row.points + (IF row.result = "AC" THEN 500 ELSE 0)
    + (IF "user" \in DOMAIN row THEN 10000 * row.user ELSE 0)

\* the tables of at most MaxRows rows
TablesOf(rows) ==
    {s \in UNION {[1..n -> rows] : n \in 0..MaxRows} :
        \A i \in 1..(Len(s) - 1) : RowRank(s[i]) <= RowRank(s[i + 1])}

\* the ID-set keys, each with the function that fills it and its identity
IdKeyCalls ==
    {[key |-> ReadKey(fn, id), fn |-> fn, id |-> id] :
        fn \in ReadFunctions, id \in Users \cup Participations}

\* the cache after every ID-set function has been read for every identity
WarmCache ==
    [k \in Keys |->
        IF \E c \in IdKeyCalls : c.key = k /\ c.id \in ReadIds(c.fn)
        THEN LET c == CHOOSE c \in IdKeyCalls :
                        c.key = k /\ c.id \in ReadIds(c.fn)
             IN  Entry(ReadQueryOf(c.fn, c.id))
        ELSE Absent]

\* a store of Submission rows or of ContestSubmission rows; the cache is
\* empty or every ID set of the store is in it
ReadInit ==
    /\ \/ subs \in TablesOf(ReadRows) /\ csubs = <<>>
       \/ subs = <<>> /\ csubs \in TablesOf(ContestReadRows)
    /\ cache \in {[k \in Keys |-> Absent], WarmCache}
    /\ cacheUp = TRUE
    /\ ncalls = 0
    /\ AddersIdle
    /\ ReadersIdle
    /\ AdminIdle
    /\ PureIdle
    /\ HotIdle

Reader == "w1"

ReadNext ==
    \/ \E fn \in ReadFunctions : \E id \in ReadIds(fn) : ReadEnter(Reader, fn, id)
    \/ ReadGet(Reader)
    \/ ReadQuery(Reader)
    \/ ReadSet(Reader)
    \/ BackendDown
    \/ BackendUp

ReadSpec == ReadInit /\ [][ReadNext]_vars

(* ------------------------ rescore (admin action) ---------------------- *)

\* Problem.partial
ProblemPartial == [p \in Problems |-> p = 1]

Permissions == {"rejudge_submission", "edit_own_problem", "edit_all_problem"}

\* request.user: its permissions and its profile
Requests == [perms : SUBSET Permissions, profile : Users]

\* request.user.has_perm('judge.<perm>')
HasPerm(request, perm) == perm \in request.perms

\* round(num / den, 1) of a quotient of tenths, in tenths (den > 0)
RoundTenths(num, den) == (2 * num + den) \div (2 * den)

\* as RescoredFrom, but without the rule for problems that are not partial
RescoredFromPartialOnly(case_points, case_total, points, partial) ==
    IF case_total # 0
    THEN RoundTenths(case_points * points, case_total)
    ELSE 0

\* lines 348-351: the points of a submission from its cases; a problem that
\* is not partial gives its full points or none
RescoredFrom(case_points, case_total, points, partial) ==
    LET computed == IF case_total # 0
                    THEN RoundTenths(case_points * points, case_total)
                    ELSE 0
    IN  IF ~partial /\ computed < points THEN 0 ELSE computed

\* lines 348-351 on a loaded submission
RescoredPoints(row) ==
    RescoredFrom(row.case_points, row.case_total, ProblemPoints[row.problem],
                 ProblemPartial[row.problem])

\* the ids of a set, ascending
RECURSIVE Ascending(_)
Ascending(S) ==
    IF S = {} THEN <<>>
    ELSE LET m == SetMin(S) IN <<m>> \o Ascending(S \ {m})

\* message_user(request, text, level)
Message(level, text, count) == [level |-> level, text |-> text, count |-> count]

\* the action runs once: recalculate_score(request, queryset)
RescoreEnter(request, queryset) ==
    /\ spc = "idle"
    /\ spc' = "entered"
    /\ srequest' = request
    /\ sqs' = queryset
    /\ UNCHANGED <<storeVars, hotVars, pureVars, judgeVars, cache, cacheUp,
                   events, ncalls, addVars, readVars, slist, snum, sprofiles,
                   messages, pointsCalls>>

\* as RescoreCheck, but reading the queryset whatever the permissions are
RescoreCheckUnasked ==
    /\ spc = "entered"
    /\ slist' = [i \in 1..Cardinality(sqs) |->
                    LET id == Ascending(sqs)[i]
                    IN  [id |-> id,
                         case_points |-> subs[id].case_points,
                         case_total |-> subs[id].case_total,
                         problem |-> subs[id].problem]]
    /\ snum' = Cardinality(sqs)
    /\ spc' = "saving"
    /\ UNCHANGED messages
    /\ UNCHANGED <<storeVars, hotVars, pureVars, judgeVars, cache, cacheUp,
                   events, ncalls, addVars, readVars, srequest, sqs,
                   sprofiles, pointsCalls>>

\* lines 342-346: without 'rejudge_submission' an error is reported and the
\* action returns; else the queryset is read into the list `submissions'
RescoreCheck ==
    /\ spc = "entered"
    /\ IF ~HasPerm(srequest, "rejudge_submission")
       THEN /\ messages' = Append(messages, Message("ERROR", "no permission", 0))
            /\ spc' = "done"
            /\ UNCHANGED <<slist, snum>>
       ELSE /\ slist' = [i \in 1..Cardinality(sqs) |->
                            LET id == Ascending(sqs)[i]
                            IN  [id |-> id,
                                 case_points |-> subs[id].case_points,
                                 case_total |-> subs[id].case_total,
                                 problem |-> subs[id].problem]]
            /\ snum' = Cardinality(sqs)
            /\ spc' = "saving"
            /\ UNCHANGED messages
    /\ UNCHANGED <<storeVars, hotVars, pureVars, judgeVars, cache, cacheUp,
                   events, ncalls, addVars, readVars, srequest, sqs, sprofiles,
                   pointsCalls>>

\* lines 347-352: the next submission gets its points and is saved (the
\* fields loaded by only(...) are written)
RescoreSave ==
    /\ spc = "saving"
    /\ slist # <<>>
    /\ LET submission == Head(slist)
       IN  subs' = [subs EXCEPT ![submission.id] =
                        [@ EXCEPT !.points = RescoredPoints(submission),
                                  !.case_points = submission.case_points,
                                  !.case_total = submission.case_total]]
    /\ slist' = Tail(slist)
    /\ UNCHANGED <<csubs, hotVars, pureVars, judgeVars, cache, cacheUp, events,
                   ncalls, addVars, readVars, spc, srequest, sqs, snum,
                   sprofiles, messages, pointsCalls>>

\* line 354: Profile.objects.filter(id__in=queryset.values_list('user_id',
\* flat=True).distinct()) is run
RescoreProfiles ==
    /\ spc = "saving"
    /\ slist = <<>>
    /\ sprofiles' = {subs[id].user : id \in sqs}
    /\ spc' = "invalidating"
    /\ UNCHANGED <<storeVars, hotVars, pureVars, judgeVars, cache, cacheUp,
                   events, ncalls, addVars, readVars, srequest, sqs, slist,
                   snum, messages, pointsCalls>>

\* lines 355-356: profile.calculate_points() and
\* cache.delete('user_complete:%d' % profile.id) for the next profile
RescoreInvalidate(profile) ==
    /\ spc = "invalidating"
    /\ profile \in sprofiles
    /\ pointsCalls' = pointsCalls \cup {profile}
    /\ cache' = CacheDelete(cache, UserCompleteKey(profile))
    /\ sprofiles' = sprofiles \ {profile}
    /\ UNCHANGED <<storeVars, hotVars, pureVars, judgeVars, cacheUp, events,
                   ncalls, addVars, readVars, spc, srequest, sqs, slist, snum,
                   messages>>

\* lines 358-359: the count of rescored submissions is reported
RescoreMessage ==
    /\ spc = "invalidating"
    /\ sprofiles = {}
    /\ messages' = Append(messages, Message("INFO", "rescored", snum))
    /\ spc' = "done"
    /\ UNCHANGED <<storeVars, hotVars, pureVars, judgeVars, cache, cacheUp,
                   events, ncalls, addVars, readVars, srequest, sqs, slist,
                   snum, sprofiles, pointsCalls>>

\* the Submission rows the rescore is run on: points that the cases raise to
\* the maximum, points that the cases lower, and a row the cases leave at 0
RescoreRows ==
    {Row(u, p, "AC", 0, 2, 2) : u \in Users, p \in Problems}
    \cup {Row(u, p, "AC", ProblemPoints[p], 1, 2) : u \in Users, p \in Problems}
    \cup {Row(u, p, "WA", 0, 0, 0) : u \in Users, p \in Problems}

\* a store of Submission rows; the cache is empty or every ID set of the
\* store is in it
RescoreInit ==
    /\ subs \in TablesOf(RescoreRows)
    /\ csubs = <<>>
    /\ cache \in {[k \in Keys |-> Absent], WarmCache}
    /\ cacheUp = TRUE
    /\ ncalls = 0
    /\ AddersIdle
    /\ ReadersIdle
    /\ AdminIdle
    /\ PureIdle
    /\ HotIdle

RescoreNext ==
    \/ \E request \in Requests, queryset \in SUBSET DOMAIN subs :
            RescoreEnter(request, queryset)
    \/ RescoreCheck
    \/ RescoreSave
    \/ RescoreProfiles
    \/ \E profile \in Users : RescoreInvalidate(profile)
    \/ RescoreMessage

RescoreSpec == RescoreInit /\ [][RescoreNext]_vars

(* --------------------- rescore: the points alone ---------------------- *)

\* the most test cases of a submission
MaxCases == 5

\* case_points and case_total of a submission: some of the cases passed
CasePairs ==
    {pair \in (0..MaxCases) \X (0..MaxCases) : pair[1] <= pair[2]}
        \cup {<<80, 100>>}

\* Problem.points of the problems rescored, in tenths
ScorePoints == {50, 100, 1000}

ScoreArgs ==
    {[fn |-> "rescore", case_points |-> pair[1], case_total |-> pair[2],
      points |-> points, partial |-> partial] :
        pair \in CasePairs, points \in ScorePoints, partial \in BOOLEAN}

\* lines 348-351 for one submission
ScoreCall ==
    /\ callArgs.fn = "rescore"
    /\ ~callRet.returned
    /\ callRet' = [returned |-> TRUE,
                   value |-> RescoredFrom(callArgs.case_points,
                                          callArgs.case_total,
                                          callArgs.points, callArgs.partial)]
    /\ UNCHANGED <<storeVars, hotVars, cache, cacheUp, events, ncalls, addVars,
                   readVars, adminVars, judgeVars, hotVars, callArgs>>

ScoreInit ==
    /\ callArgs \in ScoreArgs
    /\ callRet = [returned |-> FALSE]
    /\ subs = <<>>
    /\ csubs = <<>>
    /\ cache = [k \in Keys |-> Absent]
    /\ cacheUp = TRUE
    /\ ncalls = 0
    /\ AddersIdle
    /\ ReadersIdle
    /\ AdminIdle
    /\ HotIdle

ScoreNext == ScoreCall

ScoreSpec == ScoreInit /\ [][ScoreNext]_vars

(* ------------------------ rejudge (admin action) ---------------------- *)

\* the largest Submission table the rejudge is run on
MaxJudgeSubs == 12

\* line 314: a queryset of more submissions than this needs
\* 'rejudge_submission_lot'
RejudgeLotThreshold == 10

\* problem.authors, by profile id
ProblemAuthors == [p \in Problems |-> IF p = 1 THEN {1} ELSE {1, 2}]

JudgePermissions == Permissions \cup {"rejudge_submission_lot"}

JudgeRequests == [perms : SUBSET JudgePermissions, profile : Users]

\* problem__authors__id=request.user.profile.id
AuthoredBy(store, ids, profile) ==
    {id \in ids : profile \in ProblemAuthors[store[id].problem]}

\* the variables of recalculate_score, which judge leaves alone
rescoreLocals == <<spc, srequest, sqs, slist, snum, sprofiles, pointsCalls>>

\* the action runs once: judge(request, queryset)
JudgeEnter(request, queryset) ==
    /\ jpc = "idle"
    /\ jpc' = "entered"
    /\ jrequest' = request
    /\ jqs' = queryset
    /\ UNCHANGED <<storeVars, hotVars, pureVars, cache, cacheUp, events,
                   ncalls, addVars, readVars, rescoreLocals, messages, jlist,
                   successful, judged>>

\* as JudgeCheck, but asking for 'rejudge_submission' alone
JudgeCheckRejudgeOnly ==
    /\ jpc = "entered"
    /\ IF ~HasPerm(jrequest, "rejudge_submission")
       THEN /\ messages' = Append(messages, Message("ERROR", "no permission", 0))
            /\ jpc' = "done"
            /\ UNCHANGED jlist
       ELSE IF /\ Cardinality(jqs) > RejudgeLotThreshold
               /\ ~HasPerm(jrequest, "rejudge_submission_lot")
       THEN /\ messages' = Append(messages, Message("ERROR", "THAT many", 0))
            /\ jpc' = "done"
            /\ UNCHANGED jlist
       ELSE /\ jlist' = Ascending(
                    IF ~HasPerm(jrequest, "edit_all_problem")
                    THEN AuthoredBy(subs, jqs, jrequest.profile)
                    ELSE jqs)
            /\ jpc' = "judging"
            /\ UNCHANGED messages
    /\ UNCHANGED <<storeVars, hotVars, pureVars, cache, cacheUp, events,
                   ncalls, addVars, readVars, rescoreLocals, jrequest, jqs,
                   successful, judged>>

\* as JudgeCheck, but with a queryset of the threshold's size already
\* needing 'rejudge_submission_lot'
JudgeCheckFromThreshold ==
    /\ jpc = "entered"
    /\ IF \/ ~HasPerm(jrequest, "rejudge_submission")
          \/ ~HasPerm(jrequest, "edit_own_problem")
       THEN /\ messages' = Append(messages, Message("ERROR", "no permission", 0))
            /\ jpc' = "done"
            /\ UNCHANGED jlist
       ELSE IF /\ Cardinality(jqs) >= RejudgeLotThreshold
               /\ ~HasPerm(jrequest, "rejudge_submission_lot")
       THEN /\ messages' = Append(messages, Message("ERROR", "THAT many", 0))
            /\ jpc' = "done"
            /\ UNCHANGED jlist
       ELSE /\ jlist' = Ascending(
                    IF ~HasPerm(jrequest, "edit_all_problem")
                    THEN AuthoredBy(subs, jqs, jrequest.profile)
                    ELSE jqs)
            /\ jpc' = "judging"
            /\ UNCHANGED messages
    /\ UNCHANGED <<storeVars, hotVars, pureVars, cache, cacheUp, events,
                   ncalls, addVars, readVars, rescoreLocals, jrequest, jqs,
                   successful, judged>>

\* lines 309-319: the two permissions, then the size of the queryset against
\* 'rejudge_submission_lot', then the filter to the caller's own problems
JudgeCheck ==
    /\ jpc = "entered"
    /\ IF \/ ~HasPerm(jrequest, "rejudge_submission")
          \/ ~HasPerm(jrequest, "edit_own_problem")
       THEN /\ messages' = Append(messages, Message("ERROR", "no permission", 0))
            /\ jpc' = "done"
            /\ UNCHANGED jlist
       ELSE IF /\ Cardinality(jqs) > RejudgeLotThreshold
               /\ ~HasPerm(jrequest, "rejudge_submission_lot")
       THEN /\ messages' = Append(messages, Message("ERROR", "THAT many", 0))
            /\ jpc' = "done"
            /\ UNCHANGED jlist
       ELSE /\ jlist' = Ascending(
                    IF ~HasPerm(jrequest, "edit_all_problem")
                    THEN AuthoredBy(subs, jqs, jrequest.profile)
                    ELSE jqs)
            /\ jpc' = "judging"
            /\ UNCHANGED messages
    /\ UNCHANGED <<storeVars, hotVars, pureVars, cache, cacheUp, events,
                   ncalls, addVars, readVars, rescoreLocals, jrequest, jqs,
                   successful, judged>>

\* lines 320-321: model.judge() of the next submission hands it to a judge
\* and tells whether that went through
JudgeOne(scheduled) ==
    /\ jpc = "judging"
    /\ jlist # <<>>
    /\ judged' = judged \cup {Head(jlist)}
    /\ successful' = successful + (IF scheduled THEN 1 ELSE 0)
    /\ jlist' = Tail(jlist)
    /\ UNCHANGED <<storeVars, hotVars, pureVars, cache, cacheUp, events,
                   ncalls, addVars, readVars, rescoreLocals, messages, jpc,
                   jrequest, jqs>>

\* lines 322-323: the count of scheduled submissions is reported
JudgeMessage ==
    /\ jpc = "judging"
    /\ jlist = <<>>
    /\ messages' = Append(messages, Message("INFO", "scheduled", successful))
    /\ jpc' = "done"
    /\ UNCHANGED <<storeVars, hotVars, pureVars, cache, cacheUp, events,
                   ncalls, addVars, readVars, rescoreLocals, jrequest, jqs,
                   jlist, successful, judged>>

\* the Submission table the rejudge is run on: its problems alternate, so
\* that every batch of two or more holds submissions of both
JudgeStore(n) == [i \in 1..n |-> Row(1 + (i % 2), 1 + (i % 2), "AC", 0, 0, 0)]

\* the querysets passed in: the runs of consecutive ids of the table
JudgeQuerysets(store) ==
    {a..b : a \in DOMAIN store, b \in 0..Len(store)}

JudgeInit ==
    /\ subs \in {JudgeStore(n) : n \in (MaxJudgeSubs - 1)..MaxJudgeSubs}
    /\ csubs = <<>>
    /\ cache = [k \in Keys |-> Absent]
    /\ cacheUp = TRUE
    /\ ncalls = 0
    /\ AddersIdle
    /\ ReadersIdle
    /\ AdminIdle
    /\ PureIdle
    /\ HotIdle

JudgeNext ==
    \/ \E request \in JudgeRequests, queryset \in JudgeQuerysets(subs) :
            JudgeEnter(request, queryset)
    \/ JudgeCheck
    \/ \E scheduled \in BOOLEAN : JudgeOne(scheduled)
    \/ JudgeMessage

JudgeSpec == JudgeInit /\ [][JudgeNext]_vars

(* ---------------------------- hot problems ---------------------------- *)

\* the most Submission rows of the store hot_problems ranks
MaxHotSubs == 4

HotProblemIds == {1, 2, 3}

HotUsers == {1, 2, 3}

\* line 150: points__gt=3, points__lt=25, in tenths
PointsAbove == 30

PointsBelow == 250

\* a row of the Problem table: the fields hot_problems reads; points in
\* tenths, ac_rate in percent
ProblemRow(is_public, is_organization_private, points, ac_rate) ==
    [is_public |-> is_public,
     is_organization_private |-> is_organization_private,
     points |-> points, ac_rate |-> ac_rate]

\* a Submission row with its age, now - date
HotRow(user, problem, result, age) ==
    [user |-> user, problem |-> problem, result |-> result, points |-> 0,
     case_points |-> 0, case_total |-> 0, age |-> age]

\* submission__date__gt=timezone.now() - duration
InWindow(store, duration, p) ==
    {i \in DOMAIN store : store[i].problem = p /\ store[i].age < duration}

\* line 150: the problems the filter keeps; the join on submission keeps a
\* problem that has a submission in the window
Candidates(table, store, duration) ==
    {p \in DOMAIN table :
        /\ table[p].is_public
        /\ ~table[p].is_organization_private
        /\ InWindow(store, duration, p) # {}
        /\ table[p].points > PointsAbove
        /\ table[p].points < PointsBelow}

\* Count('submission__user', distinct=True)
unique_user_count(store, duration, p) ==
    Cardinality({store[i].user : i \in InWindow(store, duration, p)})

\* lines 160-168: Count(Case(When(submission__result=..., then=1) ...))
submission_volume(store, duration, p) ==
    Cardinality({i \in InWindow(store, duration, p) :
        store[i].result \in {"AC", "WA", "IR", "RTE", "TLE", "OLE"}})

\* lines 169-172
ac_volume(store, duration, p) ==
    Cardinality({i \in InWindow(store, duration, p) : store[i].result = "AC"})

\* lines 151, 156: the first k of order_by('-k')
TopCount(table, store, duration) ==
    SetMax({unique_user_count(store, duration, p) :
                p \in Candidates(table, store, duration)})

\* as Survivors, but keeping a problem that is at the floor
SurvivorsFromFloor(table, store, duration, mx) ==
    {p \in Candidates(table, store, duration) :
        LET k == unique_user_count(store, duration, p)
        IN  3 * k >= mx /\ k >= 1}

\* as Survivors, but with the floor at mx / 3.0 alone
SurvivorsRelativeOnly(table, store, duration, mx) ==
    {p \in Candidates(table, store, duration) :
        LET k == unique_user_count(store, duration, p)
        IN  3 * k > mx}

\* line 173: unique_user_count__gt=max(mx / 3.0, 1)
Survivors(table, store, duration, mx) ==
    {p \in Candidates(table, store, duration) :
        LET k == unique_user_count(store, duration, p)
        IN  3 * k > mx /\ k > 1}

\* e ** (num / den) in millionths: the series of exp, term by term
RECURSIVE ExpSeries(_, _, _, _)
ExpSeries(term, k, num, den) ==
    IF term = 0 THEN 0
    ELSE term + ExpSeries((term * num) \div (den * k), k + 1, num, den)

ExpMillionths(num, den) == ExpSeries(1000000, 1, num, den)

\* the database's NULL
NULL == [null |-> TRUE]

NotNull(value) == [null |-> FALSE, value |-> value]

\* line 175: 0.5 * points * (0.4 * ac_volume / submission_volume
\* + 0.6 * ac_rate) + 100 * e ** (unique_user_count / mx), in thousandths;
\* a division by zero that the database lets pass gives NULL
Ordering(table, store, duration, mx, p) ==
    LET volume == submission_volume(store, duration, p)
    IN  IF volume = 0 THEN NULL
        ELSE NotNull(((20 * table[p].points * ac_volume(store, duration, p))
                        \div volume)
                     + 30 * table[p].points * table[p].ac_rate
                     + (ExpMillionths(unique_user_count(store, duration, p),
                                      mx) \div 10))

\* ORDER BY ordering DESC puts a before b: NULL sorts below every value
NotAfter(a, b) == b.null \/ (~a.null /\ a.value >= b.value)

\* the orders the problems of a set can be listed in
ListsOf(S) ==
    {list \in [1..Cardinality(S) -> S] :
        \A i, j \in DOMAIN list : list[i] = list[j] => i = j}

\* order_by('-ordering'): every list of the survivors that descends; rows of
\* equal ordering come in the order the database happens to give
Ranked(table, store, duration, mx) ==
    {list \in ListsOf(Survivors(table, store, duration, mx)) :
        \A i, j \in DOMAIN list :
            i < j => NotAfter(Ordering(table, store, duration, mx, list[i]),
                              Ordering(table, store, duration, mx, list[j]))}

\* [:limit]
Limited(list, limit) ==
    SubSeq(list, 1, IF Len(list) < limit THEN Len(list) ELSE limit)

\* the call ends: by a return of what the cache held or of what the
\* function worked out, or by an exception
HotEnds(duration, limit, outcome, from) ==
    /\ hret' = outcome
    /\ hpc' = "done"
    /\ hlog' = Append(hlog, [duration |-> duration, limit |-> limit,
                             outcome |-> outcome, from |-> from])

HotReturn(duration, limit, value, from) ==
    HotEnds(duration, limit, [via |-> "return", value |-> value], from)

\* the call runs once: hot_problems(duration, limit); lines 147-149, 178:
\* what the cache holds under the key is returned as it is
HotEnter(duration, limit) ==
    /\ hpc = "idle"
    /\ hduration' = duration
    /\ hlimit' = limit
    /\ IF cache[HotKey(duration, limit)].present
       THEN HotReturn(duration, limit, cache[HotKey(duration, limit)].value,
                      "cache")
       ELSE hpc' = "count" /\ UNCHANGED <<hret, hlog>>
    /\ UNCHANGED <<storeVars, cache, cacheUp, events, ncalls, addVars,
                   readVars, adminVars, judgeVars, pureVars, problemTable,
                   hmx>>

\* as HotCount, but taking qs0[0] without asking whether qs0 is empty
HotCountUnguarded ==
    /\ hpc = "count"
    /\ IF Candidates(problemTable, subs, hduration) = {}
       THEN /\ HotEnds(hduration, hlimit, [via |-> "raise"], "query")
            /\ UNCHANGED hmx
       ELSE /\ hmx' = TopCount(problemTable, subs, hduration)
            /\ hpc' = "rank"
            /\ UNCHANGED <<hret, hlog>>
    /\ UNCHANGED <<storeVars, cache, cacheUp, events, ncalls, addVars,
                   readVars, adminVars, judgeVars, pureVars, problemTable,
                   hduration, hlimit>>

\* lines 150-156: no candidate, and [] is returned; else mx is the largest
\* count of distinct users
HotCount ==
    /\ hpc = "count"
    /\ IF Candidates(problemTable, subs, hduration) = {}
       THEN HotReturn(hduration, hlimit, <<>>, "query") /\ UNCHANGED hmx
       ELSE /\ hmx' = TopCount(problemTable, subs, hduration)
            /\ hpc' = "rank"
            /\ UNCHANGED <<hret, hlog>>
    /\ UNCHANGED <<storeVars, cache, cacheUp, events, ncalls, addVars,
                   readVars, adminVars, judgeVars, pureVars, problemTable,
                   hduration, hlimit>>

\* lines 158-178: cache.set runs the query; a survivor without volume makes
\* the database divide by zero, which it reports (the call raises) or lets
\* pass as NULL
HotRank ==
    /\ hpc = "rank"
    /\ \/ /\ \E p \in Survivors(problemTable, subs, hduration, hmx) :
                submission_volume(subs, hduration, p) = 0
          /\ HotEnds(hduration, hlimit, [via |-> "raise"], "query")
          /\ UNCHANGED cache
       \/ \E list \in Ranked(problemTable, subs, hduration, hmx) :
            /\ cache' = CacheSet(cache, HotKey(hduration, hlimit),
                                 Limited(list, hlimit))
            /\ HotReturn(hduration, hlimit, Limited(list, hlimit), "query")
    /\ UNCHANGED <<storeVars, cacheUp, events, ncalls, addVars, readVars,
                   adminVars, judgeVars, pureVars, problemTable, hduration,
                   hlimit, hmx>>

\* the Problem tables: problems 1 and 2 alike, problem 3 another candidate
\* or one that the filter of line 150 leaves out
HotTables ==
    {[p \in HotProblemIds |->
        IF p = 3 THEN third ELSE ProblemRow(TRUE, FALSE, 100, 50)] :
        third \in {ProblemRow(TRUE, FALSE, 200, 10),
                   ProblemRow(FALSE, FALSE, 200, 10),
                   ProblemRow(TRUE, TRUE, 200, 10),
                   ProblemRow(TRUE, FALSE, PointsAbove, 10),
                   ProblemRow(TRUE, FALSE, PointsBelow, 10)}}

\* the rows of a problem in the window, one per user and result
KindsOf(problem, users, results) ==
    [k \in 1..(users * Len(results)) |->
        HotRow(1 + ((k - 1) \div Len(results)), problem,
               results[1 + ((k - 1) % Len(results))], 0)]

\* the kinds of Submission rows: in the window, of problem 1 by three users
\* with every result that the volumes tell apart, of problem 2 and of
\* problem 3 by two users; out of the window, one of problem 1
HotKinds ==
    KindsOf(1, Cardinality(HotUsers), <<"AC", "WA", "CE">>)
    \o KindsOf(2, 2, <<"AC", "CE">>)
    \o KindsOf(3, 2, <<"AC">>)
    \o <<HotRow(1, 1, "AC", 1)>>

\* the lists of n kinds that do not descend
RECURSIVE KindLists(_)
KindLists(n) ==
    IF n = 0 THEN {<<>>}
    ELSE UNION {{Append(list, k) :
                    k \in (IF list = <<>> THEN 1 ELSE list[Len(list)])
                            ..Len(HotKinds)} :
                list \in KindLists(n - 1)}

\* stores of at most n rows, one per multiset of kinds
HotStores(n) ==
    {[i \in DOMAIN list |-> HotKinds[list[i]]] :
        list \in UNION {KindLists(m) : m \in 0..n}}

HotInit ==
    /\ problemTable \in HotTables
    /\ subs \in HotStores(MaxHotSubs)
    /\ csubs = <<>>
    /\ cache = [k \in Keys |-> Absent]
    /\ cacheUp = TRUE
    /\ ncalls = 0
    /\ hpc = "idle"
    /\ hduration = 0
    /\ hlimit = 0
    /\ hmx = 0
    /\ hret = [via |-> None]
    /\ hlog = <<>>
    /\ AddersIdle
    /\ ReadersIdle
    /\ AdminIdle
    /\ PureIdle

HotNext ==
    \/ \E duration \in HotDurations, limit \in HotLimits :
            HotEnter(duration, limit)
    \/ HotCount
    \/ HotRank

HotSpec == HotInit /\ [][HotNext]_vars

(* ----------------------- hot problems: the cache ---------------------- *)

\* the most calls of hot_problems between two lapses of an entry
MaxHotCalls == 2

\* the most Submission rows of the store while hot_problems is called
MaxHotCacheSubs == 3

\* problems 1 and 2 alike, problem 3 another candidate
HotCacheTable ==
    [p \in HotProblemIds |->
        IF p = 3 THEN ProblemRow(TRUE, FALSE, 200, 10)
        ELSE ProblemRow(TRUE, FALSE, 100, 50)]

\* the submissions that come in: of problem 1 as the call is made, of
\* problem 2 a second before, which is inside a window of 1.5 seconds only
HotCacheRows ==
    {HotRow(user, 1, "AC", 0) : user \in {1, 2}}
    \cup {HotRow(user, 2, "AC", 2) : user \in {1, 2}}

\* a submission is added to the store
Submit(row) ==
    /\ Len(subs) < MaxHotCacheSubs
    /\ subs' = Append(subs, row)
    /\ UNCHANGED <<csubs, cache, cacheUp, events, ncalls, addVars, readVars,
                   adminVars, judgeVars, pureVars, hotVars>>

\* the 900 seconds given to cache.set at line 177 have run out: the backend
\* drops the entry, and the calls that ended before are a lifetime back
HotExpire(key) ==
    /\ cache[key].present
    /\ cache' = CacheDelete(cache, key)
    /\ hlog' = <<>>
    /\ UNCHANGED <<storeVars, cacheUp, events, ncalls, addVars, readVars,
                   adminVars, judgeVars, pureVars, problemTable, hpc,
                   hduration, hlimit, hmx, hret>>

\* the caller goes on to its next call
HotAgain ==
    /\ hpc = "done"
    /\ Len(hlog) < MaxHotCalls
    /\ hpc' = "idle"
    /\ hduration' = 0
    /\ hlimit' = 0
    /\ hmx' = 0
    /\ hret' = [via |-> None]
    /\ UNCHANGED <<storeVars, cache, cacheUp, events, ncalls, addVars,
                   readVars, adminVars, judgeVars, pureVars, problemTable,
                   hlog>>

HotCacheInit ==
    /\ problemTable = HotCacheTable
    /\ subs = <<>>
    /\ csubs = <<>>
    /\ cache = [k \in Keys |-> Absent]
    /\ cacheUp = TRUE
    /\ ncalls = 0
    /\ hpc = "idle"
    /\ hduration = 0
    /\ hlimit = 0
    /\ hmx = 0
    /\ hret = [via |-> None]
    /\ hlog = <<>>
    /\ AddersIdle
    /\ ReadersIdle
    /\ AdminIdle
    /\ PureIdle

HotCacheNext ==
    \/ \E duration \in HotCacheDurations, limit \in HotLimits :
            HotEnter(duration, limit)
    \/ HotCount
    \/ HotRank
    \/ HotAgain
    \/ \E row \in HotCacheRows : Submit(row)
    \/ \E duration \in HotCacheDurations, limit \in HotLimits :
            HotExpire(HotKey(duration, limit))

HotCacheSpec == HotCacheInit /\ [][HotCacheNext]_vars

(* ------------------- rejudge or rescore, either one ------------------- *)

\* one admin action is run on the store: judge or recalculate_score
OrchestratorNext ==
    \/ \E request \in JudgeRequests, queryset \in SUBSET DOMAIN subs :
            spc = "idle" /\ JudgeEnter(request, queryset)
    \/ JudgeCheck
    \/ \E scheduled \in BOOLEAN : JudgeOne(scheduled)
    \/ JudgeMessage
    \/ \E request \in Requests, queryset \in SUBSET DOMAIN subs :
            jpc = "idle" /\ RescoreEnter(request, queryset)
    \/ RescoreCheck
    \/ RescoreSave
    \/ RescoreProfiles
    \/ \E profile \in Users : RescoreInvalidate(profile)
    \/ RescoreMessage

OrchestratorSpec == RescoreInit /\ [][OrchestratorNext]_vars

(* ------------------ ID-set reads beside a rescore --------------------- *)

\* the most ID-set reads made beside the rescore
MaxRaceReads == 2

\* the rows of one user: points that the cases raise to the maximum, points
\* that the cases lower, and a row the cases leave at 0
RaceRows == {row \in RescoreRows : row.user = 1}

\* the rescore is run by a user who may
RaceRequests == {[perms |-> Permissions, profile |-> 1]}

RaceFunctions == {"user_completed_ids", "user_attempted_ids"}

RaceInit ==
    /\ subs \in TablesOf(RaceRows)
    /\ csubs = <<>>
    /\ cache \in {[k \in Keys |-> Absent], WarmCache}
    /\ cacheUp = TRUE
    /\ ncalls = 0
    /\ AddersIdle
    /\ ReadersIdle
    /\ AdminIdle
    /\ PureIdle
    /\ HotIdle

\* two workers read ID sets while a third runs recalculate_score
RaceNext ==
    \/ \E w \in Workers, fn \in RaceFunctions, id \in Users :
            ReadStart(w, fn, id, MaxRaceReads)
    \/ \E w \in Workers : ReadGet(w)
    \/ \E w \in Workers : ReadQuery(w)
    \/ \E w \in Workers : ReadSet(w)
    \/ \E request \in RaceRequests, queryset \in SUBSET DOMAIN subs :
            RescoreEnter(request, queryset)
    \/ RescoreCheck
    \/ RescoreSave
    \/ RescoreProfiles
    \/ \E profile \in Users : RescoreInvalidate(profile)
    \/ RescoreMessage

RaceSpec == RaceInit /\ [][RaceNext]_vars

(* ------------------ ID-set entries and their lifetime ----------------- *)

\* the most ID-set reads made while the entries age
MaxTtlReads == 2

\* the ID-set keys of user 1
TtlKeys == {UserCompleteKey(1), UserAttemptedKey(1)}

\* one submission of user 1; the cache is empty or every ID set of the
\* store is in it
TtlInit ==
    /\ subs \in {<<row>> : row \in RaceRows}
    /\ csubs = <<>>
    /\ cache \in {[k \in Keys |-> Absent], WarmCache}
    /\ cacheUp = TRUE
    /\ ncalls = 0
    /\ AddersIdle
    /\ ReadersIdle
    /\ AdminIdle
    /\ PureIdle
    /\ HotIdle

\* what a call that has been entered goes on to do, and what time does
TtlRuns ==
    \/ ReadGet(Reader)
    \/ ReadQuery(Reader)
    \/ ReadSet(Reader)
    \/ RescoreCheck
    \/ RescoreSave
    \/ RescoreProfiles
    \/ \E profile \in Users : RescoreInvalidate(profile)
    \/ RescoreMessage
    \/ \E key \in TtlKeys : Age(key)
    \/ \E key \in TtlKeys : Expire(key)

\* a worker reads the ID sets of user 1, the store is rescored once, and
\* the 86400 seconds of the entries run out
TtlNext ==
    \/ \E fn \in RaceFunctions : ReadStart(Reader, fn, 1, MaxTtlReads)
    \/ \E request \in RaceRequests, queryset \in SUBSET DOMAIN subs :
            RescoreEnter(request, queryset)
    \/ TtlRuns

\* what every step of TtlRuns changes some of
ttlVars == <<cache, rpc, spc, slist, sprofiles>>

\* a call that was entered runs on to its return, and time passes
TtlSpec == TtlInit /\ [][TtlNext]_vars /\ WF_ttlVars(TtlRuns)

(* -------------------------- claims: rescore --------------------------- *)

\* C1: when a rescore that went through returns, neither the completed-set
\* entry nor the attempted-set entry of any owner of a submission of the
\* batch is in the cache.
C1_OwnersEntriesInvalidated ==
    (/\ spc = "done"
     /\ messages # <<>>
     /\ messages[Len(messages)].text = "rescored")
    => \A id \in sqs :
        /\ ~cache[UserCompleteKey(subs[id].user)].present
        /\ ~cache[UserAttemptedKey(subs[id].user)].present

\* C2: no step of a rescore whose caller lacks 'rejudge_submission' or
\* 'edit_own_problem' changes a submission or deletes a cache entry, and the
\* call ends with one error message.
C2_UnauthorizedRescoreHasNoEffect ==
    [][(/\ spc # "idle"
        /\ \/ "rejudge_submission" \notin srequest.perms
           \/ "edit_own_problem" \notin srequest.perms)
       => /\ subs' = subs
          /\ \A k \in Keys : cache[k].present => cache'[k].present
          /\ pointsCalls' = pointsCalls
          /\ spc' = "done" =>
                /\ Len(messages') = 1
                /\ messages'[1].level = "ERROR"]_vars

(* -------------------------- claims: rejudge --------------------------- *)

\* C11: a rejudge whose caller lacks 'rejudge_submission' or
\* 'edit_own_problem' calls judge() on no submission, counts none as
\* scheduled, and ends with one error message.
C11_UnauthorizedRejudgeSchedulesNone ==
    (/\ jpc # "idle"
     /\ \/ "rejudge_submission" \notin jrequest.perms
        \/ "edit_own_problem" \notin jrequest.perms)
    => /\ judged = {}
       /\ successful = 0
       /\ jpc \in {"entered", "done"}
       /\ jpc = "done" =>
            /\ Len(messages) = 1
            /\ messages[1].level = "ERROR"

\* a rejudge of a batch by a caller with 'rejudge_submission' but without
\* 'edit_own_problem' has returned
C11_Witness ==
    /\ jpc = "done"
    /\ jqs # {}
    /\ "rejudge_submission" \in jrequest.perms
    /\ "edit_own_problem" \notin jrequest.perms
    /\ Len(messages) = 1

\* C12: a rejudge of more than RejudgeLotThreshold submissions by a caller
\* without 'rejudge_submission_lot' calls judge() on none and ends with one
\* error message; a rejudge of at most RejudgeLotThreshold submissions by a
\* caller with 'rejudge_submission' and 'edit_own_problem' ends with the
\* count of scheduled submissions, with or without 'rejudge_submission_lot'.
C12_BulkRejudgeNeedsLot ==
    /\ (/\ jpc # "idle"
        /\ Cardinality(jqs) > RejudgeLotThreshold
        /\ "rejudge_submission_lot" \notin jrequest.perms)
       => /\ judged = {}
          /\ successful = 0
          /\ jpc = "done" =>
                /\ Len(messages) = 1
                /\ messages[1].level = "ERROR"
    /\ (/\ jpc = "done"
        /\ Cardinality(jqs) <= RejudgeLotThreshold
        /\ "rejudge_submission" \in jrequest.perms
        /\ "edit_own_problem" \in jrequest.perms)
       => /\ Len(messages) = 1
          /\ messages[1] = Message("INFO", "scheduled", successful)

\* a caller with the two permissions but without 'rejudge_submission_lot' has
\* been refused a batch of one more than the threshold
C12_Witness ==
    /\ jpc = "done"
    /\ Cardinality(jqs) = RejudgeLotThreshold + 1
    /\ jrequest.perms = {"rejudge_submission", "edit_own_problem"}
    /\ messages = <<Message("ERROR", "THAT many", 0)>>

\* C13: while the caller lacks 'edit_all_problem', a rejudge calls judge()
\* only on submissions of problems the caller is an author of, and no step
\* of a rescore rewrites the points of a submission of a problem the caller
\* is not an author of.
C13_OnlyOwnProblemsActedOn ==
    [][/\ (/\ jpc' # "idle"
           /\ "edit_all_problem" \notin jrequest'.perms)
          => \A id \in judged' :
                jrequest'.profile \in ProblemAuthors[subs'[id].problem]
       /\ (/\ spc # "idle"
           /\ "edit_all_problem" \notin srequest.perms)
          => \A id \in DOMAIN subs :
                subs'[id].points # subs[id].points
                => srequest.profile \in ProblemAuthors[subs[id].problem]]_vars

\* C14: the points a rescore gives are 0 when case_total is 0; else they are
\* a tenth nearest to case_points / case_total * points, but 0 when the
\* problem is not partial and that tenth is below the problem's points. So a
\* problem that is not partial gives 0 or its points, and 80 of 100 cases on
\* a problem of 100 points give 0 if it is not partial and 80.0 if it is.
C14_RescoredPoints ==
    (callArgs.fn = "rescore" /\ callRet.returned) =>
        LET cp == callArgs.case_points
            ct == callArgs.case_total
            Nearest(t) == /\ 2 * t * ct - 2 * cp * callArgs.points <= ct
                          /\ 2 * cp * callArgs.points - 2 * t * ct <= ct
        IN  /\ ct = 0 => callRet.value = 0
            /\ ct > 0 =>
                  \E t \in 0..callArgs.points :
                      /\ Nearest(t)
                      /\ callRet.value =
                            IF ~callArgs.partial /\ t < callArgs.points
                            THEN 0 ELSE t
            /\ ~callArgs.partial => callRet.value \in {0, callArgs.points}
            /\ (cp = 80 /\ ct = 100 /\ callArgs.points = 1000) =>
                  callRet.value = IF callArgs.partial THEN 800 ELSE 0

\* 80 of 100 cases on a problem of 100 points that is not partial
C14_Witness ==
    /\ callArgs.fn = "rescore"
    /\ callArgs.case_points = 80
    /\ callArgs.case_total = 100
    /\ callArgs.points = 1000
    /\ ~callArgs.partial
    /\ callRet.returned
    /\ callRet.value = 0

(* --------------------- claims: get_result_data ------------------------ *)

\* the rows of a queryset whose result is one of a set of codes
RowsWith(store, codes) == {i \in DOMAIN store : store[i].result \in codes}

\* C15: get_result_data returns the five categories AC, WA, CE, TLE, ERR in
\* that order, also those that count nothing; each counts the submissions
\* whose result is one of its codes (ERR: MLE, OLE, IR, RTE, AB, IE); each
\* code is of exactly one category; total is the number of submissions that
\* have a result.
C15_FiveCategoriesInOrder ==
    (callArgs.fn = "get_result_data" /\ callRet.returned) =>
        LET store == callArgs.submissions
            categories == callRet.value.categories
            Counts(codes) == Cardinality(RowsWith(store, codes))
        IN  /\ [i \in DOMAIN categories |-> categories[i].code]
                    = <<"AC", "WA", "CE", "TLE", "ERR">>
            /\ categories[1].count = Counts({"AC"})
            /\ categories[2].count = Counts({"WA"})
            /\ categories[3].count = Counts({"CE"})
            /\ categories[4].count = Counts({"TLE"})
            /\ categories[5].count =
                    Counts({"MLE", "OLE", "IR", "RTE", "AB", "IE"})
            /\ \A k \in DOMAIN AllResults :
                    AllResults[k] # None =>
                        Cardinality({i \in DOMAIN RESULT_TYPES :
                            AllResults[k] \in RESULT_TYPES[i].results}) = 1
            /\ callRet.value.total
                    = Cardinality({i \in DOMAIN store : store[i].result # None})

\* a queryset of an MLE, an RTE and a pending submission: AC counts nothing
C15_Witness ==
    /\ callArgs.fn = "get_result_data"
    /\ callRet.returned
    /\ {callArgs.submissions[i].result : i \in DOMAIN callArgs.submissions}
            = {"MLE", "RTE", None}
    /\ callRet.value.categories[1].count = 0
    /\ callRet.value.categories[5].count = 2
    /\ callRet.value.total = 2

(* ------------------------ claims: hot problems ------------------------ *)

\* the users with a submission of problem p in the window of the call
Submitters(p) ==
    {subs[i].user : i \in {j \in DOMAIN subs :
                              subs[j].problem = p /\ subs[j].age < hduration}}

\* problem p is public, not private to an organization, of points inside
\* the band, and has a submission in the window of the call
Eligible(p) ==
    /\ problemTable[p].is_public
    /\ ~problemTable[p].is_organization_private
    /\ problemTable[p].points > PointsAbove
    /\ problemTable[p].points < PointsBelow
    /\ Submitters(p) # {}

\* mx is at most n: no candidate has more than n submitters
PeakAtMost(n) ==
    \A p \in HotProblemIds : Eligible(p) => Cardinality(Submitters(p)) <= n

\* the call has returned a ranking it computed
Computed == hpc = "done" /\ hret.via = "return"

\* C16: every problem of the list hot_problems returns is public, not
\* private to an organization, of points inside the band, has a submission
\* in the window, and has more than a third of the submitters of every
\* candidate (so more than mx / 3).
C16_FloorAndFilters ==
    Computed =>
        \A i \in DOMAIN hret.value :
            /\ Eligible(hret.value[i])
            /\ \A q \in HotProblemIds :
                    Eligible(q) => 3 * Cardinality(Submitters(hret.value[i]))
                                    > Cardinality(Submitters(q))

\* a ranking was returned while a candidate with a third of the submitters
\* of another was left out
C16_Witness ==
    /\ Computed
    /\ hret.value # <<>>
    /\ \E p, q \in HotProblemIds :
            /\ Eligible(p)
            /\ Eligible(q)
            /\ 3 * Cardinality(Submitters(p)) = Cardinality(Submitters(q))
            /\ \A i \in DOMAIN hret.value : hret.value[i] # p

OrderingOrZero(p) ==
    IF submission_volume(subs, hduration, p) = 0
    THEN 30 * problemTable[p].points * problemTable[p].ac_rate
         + (ExpMillionths(unique_user_count(subs, hduration, p), hmx) \div 10)
    ELSE Ordering(problemTable, subs, hduration, hmx, p).value

\* list holds every survivor once, none before one of a higher ordering
DescendingList(list) ==
    /\ list \in ListsOf(Survivors(problemTable, subs, hduration, hmx))
    /\ \A i, j \in DOMAIN list :
            i < j => OrderingOrZero(list[i]) >= OrderingOrZero(list[j])

\* C18: when a survivor of the floor has no submission volume, hot_problems
\* still returns, and what it returns is the first `limit' of the survivors
\* in descending ordering, the accept ratio of that survivor taken as zero.
C18_ZeroVolumeRankedAsZero ==
    (/\ hpc = "done"
     /\ hmx > 0
     /\ \E p \in Survivors(problemTable, subs, hduration, hmx) :
            submission_volume(subs, hduration, p) = 0)
    => /\ hret.via = "return"
       /\ \E list \in ListsOf(Survivors(problemTable, subs, hduration, hmx)) :
            /\ DescendingList(list)
            /\ hret.value = Limited(list, hlimit)

\* C19: when every survivor has submission volume, the list returned is the
\* first `limit' of the survivors in descending ordering, those of equal
\* ordering by ascending id.
C19_DescendingThenId ==
    (/\ Computed
     /\ hmx > 0
     /\ \A p \in Survivors(problemTable, subs, hduration, hmx) :
            submission_volume(subs, hduration, p) > 0)
    => \E list \in ListsOf(Survivors(problemTable, subs, hduration, hmx)) :
            /\ DescendingList(list)
            /\ \A i, j \in DOMAIN list :
                    (i < j /\ OrderingOrZero(list[i]) = OrderingOrZero(list[j]))
                    => list[i] < list[j]
            /\ hret.value = Limited(list, hlimit)

\* C20: when no problem passes the filters with a submission in the window,
\* hot_problems returns an empty ranking.
C20_NoCandidateGivesEmpty ==
    (/\ hpc = "done"
     /\ \A p \in HotProblemIds : ~Eligible(p))
    => hret = [via |-> "return", value |-> <<>>]

\* the call has returned on a store whose submissions are all out of the
\* window or of a problem the filters leave out
C20_Witness ==
    /\ hpc = "done"
    /\ \E i, j \in DOMAIN subs :
            subs[i].age < hduration /\ subs[j].age >= hduration
    /\ \A p \in HotProblemIds : ~Eligible(p)
    /\ hret = [via |-> "return", value |-> <<>>]

(* --------------------- claims: hot problems cache --------------------- *)

\* C21: of two calls of hot_problems with the same duration and limit that
\* ended with no entry lapsing in between, the second returns the list the
\* first returned, whatever was submitted in between; and a call that
\* returns from the cache shares its key with no earlier call of another
\* duration or limit that ran the query.
C21_SameArgumentsSameList ==
    \A i, j \in DOMAIN hlog :
        i < j =>
            /\ (/\ hlog[i].duration = hlog[j].duration
                /\ hlog[i].limit = hlog[j].limit
                /\ hlog[i].outcome.via = "return")
               => hlog[j].outcome = hlog[i].outcome
            /\ (/\ hlog[i].from = "query"
                /\ hlog[j].from = "cache"
                /\ HotKey(hlog[i].duration, hlog[i].limit)
                        = HotKey(hlog[j].duration, hlog[j].limit))
               => /\ hlog[i].duration = hlog[j].duration
                  /\ hlog[i].limit = hlog[j].limit

\* C28: a rejudge by a caller with 'rejudge_submission' and
\* 'edit_own_problem' but neither 'edit_all_problem' nor
\* 'rejudge_submission_lot', of a queryset of more than RejudgeLotThreshold
\* submissions of which at most RejudgeLotThreshold are of problems the
\* caller is an author of, is not refused for the size of the batch: it ends
\* with the count of scheduled submissions.
C28_ThresholdOnOwnBatch ==
    (/\ jpc = "done"
     /\ "rejudge_submission" \in jrequest.perms
     /\ "edit_own_problem" \in jrequest.perms
     /\ "edit_all_problem" \notin jrequest.perms
     /\ "rejudge_submission_lot" \notin jrequest.perms
     /\ Cardinality(jqs) > RejudgeLotThreshold
     /\ Cardinality(AuthoredBy(subs, jqs, jrequest.profile))
            <= RejudgeLotThreshold)
    => /\ \A i \in DOMAIN messages :
            messages[i] # Message("ERROR", "THAT many", 0)
       /\ messages = <<Message("INFO", "scheduled", successful)>>

(* ------------------ claims: ID sets, key by key ----------------------- *)

\* the key named after the purpose and the identity of a call
OwnKey(fn, id) ==
    IF fn = "user_completed_ids" THEN UserCompleteKey(id)
    ELSE IF fn = "user_attempted_ids" THEN UserAttemptedKey(id)
    ELSE IF fn = "contest_completed_ids" THEN ContestCompleteKey(id)
    ELSE ContestAttemptedKey(id)

\* C29: a step of an ID-set read leaves both submission tables as they
\* were; the only cache entry it may change is the one under the key of its
\* own purpose and identity, to the value its own query gave; and a read
\* that returns a value returns the one cached under its own key or the one
\* its own query gave, which is the value for its identity and purpose.
C29_OwnKeyOnly ==
    [][\A w \in Workers :
        rpc[w] # rpc'[w] =>
            /\ subs' = subs
            /\ csubs' = csubs
            /\ \A k \in Keys :
                    cache'[k] # cache[k]
                    => /\ rpc[w] = "computed"
                       /\ k = OwnKey(rfn[w], rid[w])
                       /\ cache'[k] = Entry(rresult[w].value)
                       /\ rresult[w].value = ReadQueryOf(rfn[w], rid[w])
            /\ rret'[w].via = "hit"
               => /\ cache[OwnKey(rfn[w], rid[w])].present
                  /\ rret'[w].value = cache[OwnKey(rfn[w], rid[w])].value
                  /\ rret'[w].value = ReadQueryOf(rfn[w], rid[w])
            /\ rret'[w].via = "computed"
               => /\ rret'[w].value = rresult[w].value
                  /\ rret'[w].value = ReadQueryOf(rfn[w], rid[w])]_vars

\* user_completed_ids of user 2 has missed and filled 'user_complete:2'
\* with a set that is not user 1's, and no other entry is in the cache
C29_Witness ==
    /\ rret[Reader].via = "computed"
    /\ rret[Reader].fn = "user_completed_ids"
    /\ rret[Reader].id = 2
    /\ rret[Reader].value # UserCompletedQuery(subs, 1)
    /\ DOMAIN UserAttemptedQuery(subs, 2) # rret[Reader].value
    /\ cache[UserCompleteKey(2)] = Entry(rret[Reader].value)
    /\ \A k \in Keys \ {UserCompleteKey(2)} : ~cache[k].present

(* -------------------- claims: rejudge and rescore --------------------- *)

\* C22: a step that calls judge() on a submission is a step of a rejudge
\* past its permission checks, the caller holding what they ask for; a step
\* that writes a submission, runs calculate_points() or takes an entry out
\* of the cache is a step of a rescore past its permission check, the caller
\* holding what it asks for.
C22_CheckBeforeEffect ==
    [][/\ (judged' # judged \/ successful' # successful)
          => /\ jpc = "judging"
             /\ "rejudge_submission" \in jrequest.perms
             /\ "edit_own_problem" \in jrequest.perms
       /\ (\/ subs' # subs
           \/ pointsCalls' # pointsCalls
           \/ \E k \in Keys : cache[k].present /\ ~cache'[k].present)
          => /\ spc \in {"saving", "invalidating"}
             /\ "rejudge_submission" \in srequest.perms]_vars

\* a rescore has rewritten the points of a submission and is at its cache
\* invalidations
C22_Witness ==
    /\ spc = "invalidating"
    /\ pointsCalls # {}
    /\ \E id \in sqs : subs[id].points = RescoredPoints(subs[id])
                        /\ subs[id].points # 0

(* ---------------- claims: ID sets beside a rescore -------------------- *)

\* the users of the submissions of a queryset
TouchedUsers(store, ids) == {store[id].user : id \in ids}

\* C24: when a rescore and the ID-set reads running beside it have all
\* returned, the 'user_complete' entry of each user of a rescored submission
\* is absent or is the completed set the store gives now.
C24_NoStaleSetAfterRescore ==
    (/\ spc = "done"
     /\ \A w \in Workers : rpc[w] = "idle")
    => \A u \in TouchedUsers(subs, sqs) :
            \/ ~cache[UserCompleteKey(u)].present
            \/ cache[UserCompleteKey(u)].value = UserCompletedQuery(subs, u)

\* C27: no problem is in a user's cached completed set and among the keys of
\* the same user's cached attempted mapping.
C27_CompletedAndAttemptedDisjoint ==
    \A u \in Users :
        (/\ cache[UserCompleteKey(u)].present
         /\ cache[UserAttemptedKey(u)].present)
        => cache[UserCompleteKey(u)].value
            \cap DOMAIN cache[UserAttemptedKey(u)].value = {}

\* an ID-set entry of user 1 is absent or is what the store gives now
TtlCurrent(fn) ==
    \/ ~cache[ReadKey(fn, 1)].present
    \/ cache[ReadKey(fn, 1)].value = ReadQueryOf(fn, 1)

\* C25: a read that hits returns the entry's value and runs no query, even
\* when the store gives another value by now; and once the store has stopped
\* changing, the lifetime of the entries runs out, so that from some time on
\* each entry is absent or is the value the store gives, and every read that
\* returns after that returns the store's value.
C25_StaleEntryExpires ==
    /\ [][(rpc[Reader] = "entered" /\ rret'[Reader].via = "hit")
          => /\ rret'[Reader].value = cache[ReadKey(rfn[Reader], 1)].value
             /\ rresult' = rresult
             /\ cache' = cache]_vars
    /\ <>[](\A fn \in RaceFunctions : TtlCurrent(fn))
    /\ <>[][rret'[Reader] # rret[Reader] /\ rret'[Reader].via # None
            => rret'[Reader].value
                = ReadQueryOf(rret'[Reader].fn, rret'[Reader].id)]_rret

\* the attempted mapping cached before a rescore raised the points, which
\* the rescore left in the cache, has run out and a read has put the
\* store's mapping in its place
C25_Witness ==
    /\ spc = "done"
    /\ subs = <<Row(1, 1, "AC", 100, 2, 2)>>
    /\ snum = 1
    /\ cache[UserCompleteKey(2)].present
    /\ rret[Reader].via = "computed"
    /\ rret[Reader].fn = "user_attempted_ids"
    /\ cache[UserAttemptedKey(1)].present
    /\ DOMAIN cache[UserAttemptedKey(1)].value = {}

(* -------------------------- claims: ID sets --------------------------- *)

\* the points of an identity's rows for a problem
PointsOn(rows, p) == {rows[i].points : i \in {j \in DOMAIN rows : rows[j].problem = p}}

\* the rows of the identity a call of fn is about
RowsFor(fn, id) ==
    IF fn \in {"user_completed_ids", "user_attempted_ids"}
    THEN SelectRows(subs, {r \in ReadRows : r.user = id})
    ELSE SelectRows(csubs, {r \in ContestReadRows : r.participation = id})

\* the maximum points of the problems, for the identity a call of fn is about
MaxPointsFor(fn) ==
    IF fn \in {"user_completed_ids", "user_attempted_ids"}
    THEN ProblemPoints ELSE ContestProblemPoints

\* C3: on a miss, user_completed_ids and contest_completed_ids return
\* exactly the problems on which the identity has a submission with result
\* AC and the problem's maximum points.
C3_CompletedOnMiss ==
    \A w \in Workers :
        (/\ rret[w].via = "computed"
         /\ rret[w].fn \in {"user_completed_ids", "contest_completed_ids"})
        => LET rows == RowsFor(rret[w].fn, rret[w].id)
               top == MaxPointsFor(rret[w].fn)
           IN  rret[w].value =
                 {p \in Problems :
                    \E i \in DOMAIN rows :
                        /\ rows[i].problem = p
                        /\ rows[i].result = "AC"
                        /\ rows[i].points = top[p]}

\* a miss of user_completed_ids has returned {1}: the user has maximum
\* points with AC on problem 1 and maximum points with WA on problem 2
C3_Witness ==
    \E w \in Workers :
        /\ rret[w].via = "computed"
        /\ rret[w].fn = "user_completed_ids"
        /\ rret[w].value = {1}
        /\ \E i \in DOMAIN subs : subs[i] = Row(rret[w].id, 1, "AC", 100, 0, 0)
        /\ \E i \in DOMAIN subs : subs[i] = Row(rret[w].id, 2, "WA", 50, 0, 0)

\* C4: on a miss, user_attempted_ids and contest_attempted_ids return a
\* mapping whose keys are exactly the problems on which the identity's
\* greatest points are below the problem's maximum, each with that greatest
\* value and the problem's maximum.
C4_AttemptedOnMiss ==
    \A w \in Workers :
        (/\ rret[w].via = "computed"
         /\ rret[w].fn \in {"user_attempted_ids", "contest_attempted_ids"})
        => LET rows == RowsFor(rret[w].fn, rret[w].id)
               top == MaxPointsFor(rret[w].fn)
               got == rret[w].value
           IN  /\ DOMAIN got =
                    {p \in Problems :
                        /\ PointsOn(rows, p) # {}
                        /\ \A x \in PointsOn(rows, p) : x < top[p]}
               /\ \A p \in DOMAIN got :
                    /\ got[p].achieved_points \in PointsOn(rows, p)
                    /\ \A x \in PointsOn(rows, p) :
                            x <= got[p].achieved_points
                    /\ got[p].max_points = top[p]
                    /\ DOMAIN got[p] = {"achieved_points", "max_points"}

\* a miss of user_attempted_ids has returned problem 1 with 5.0 of 10.0: the
\* user's submissions to it have 0 and 5.0
C4_Witness ==
    \E w \in Workers :
        /\ rret[w].via = "computed"
        /\ rret[w].fn = "user_attempted_ids"
        /\ DOMAIN rret[w].value = {1}
        /\ rret[w].value[1] = [achieved_points |-> 50, max_points |-> 100]
        /\ PointsOn(RowsFor("user_attempted_ids", rret[w].id), 1) = {0, 50}

\* C10: with the cache backend down or up, no ID-set read ends in an error,
\* and each returns the value the submission store gives.
C10_BackendDownNeverFailsCaller ==
    \A w \in Workers :
        rret[w].via # None
        => /\ rret[w].via # "raised"
           /\ rret[w].value = ReadQueryOf(rret[w].fn, rret[w].id)

(* ------------------- claims: result distribution ---------------------- *)

\* the i-th category of an aggregate
CategoryAt(data, i) == data.categories[i]

\* C5: when the global entry is cached and the result maps to a category, a
\* call that writes over the entry it read adds delta to that category's
\* count and to the total, leaves every other category as it was and puts
\* the result in the cache with a new lifetime.
C5_DeltaAppliedToCategory ==
    [][\A w \in Workers :
        (/\ apc[w] = "got"
         /\ apc'[w] = "written"
         /\ cache[GlobalKey].present
         /\ cache[GlobalKey].value = adata[w])
        => LET old == cache[GlobalKey].value
               new == cache'[GlobalKey]
               cat == IF aresult[w] \in {"AC", "WA", "CE", "TLE"}
                      THEN aresult[w] ELSE "ERR"
           IN  /\ new.present
               /\ new.fresh
               /\ new.value.total = old.total + adelta[w]
               /\ DOMAIN new.value.categories = DOMAIN old.categories
               /\ \A i \in DOMAIN old.categories :
                    /\ CategoryAt(new.value, i).code = CategoryAt(old, i).code
                    /\ CategoryAt(new.value, i).name = CategoryAt(old, i).name
                    /\ CategoryAt(new.value, i).count =
                         CategoryAt(old, i).count
                         + (IF CategoryAt(old, i).code = cat
                            THEN adelta[w] ELSE 0)]_vars

\* an aggregate {AC: 1, ERR: 1, total: 2} has become {AC: 2, ERR: 1, total: 3}
\* by ('AC', +1)
C5_Witness ==
    \E w \in Workers :
        /\ apc[w] = "written"
        /\ aresult[w] = "AC"
        /\ adelta[w] = 1
        /\ Len(subs) = 2
        /\ cache[GlobalKey].present
        /\ CategoryAt(cache[GlobalKey].value, 1).count = 2
        /\ CategoryAt(cache[GlobalKey].value, 5).count = 1
        /\ cache[GlobalKey].value.total = 3

\* C6: no category count of the cached global distribution is below zero,
\* whatever deltas were applied.
C6_CountsNeverNegative ==
    cache[GlobalKey].present =>
        \A i \in DOMAIN cache[GlobalKey].value.categories :
            CategoryAt(cache[GlobalKey].value, i).count >= 0

\* C7: a call that finds the global entry absent returns at once: the cache
\* is as it was (the entry stays absent) and no event is published.
C7_AbsentIsNoOp ==
    [][\A w \in Workers :
        (/\ apc[w] = "entered"
         /\ apc'[w] # "entered"
         /\ ~cache[GlobalKey].present)
        => /\ apc'[w] = "idle"
           /\ cache' = cache
           /\ events' = events]_vars

\* a call with a mapped result has returned on the miss
C7_Witness ==
    \E w \in Workers :
        /\ aret[w] = 116
        /\ apc[w] = "idle"
        /\ ~cache[GlobalKey].present
        /\ events = <<>>

\* C8: a call whose result is None or outside the ten enumerated codes
\* returns at once: the cached aggregate and its lifetime are as they were
\* and no event is published.
C8_UnmappedIsIgnored ==
    [][\A w \in Workers :
        (/\ apc[w] = "entered"
         /\ apc'[w] # "entered"
         /\ aresult[w] \notin {"AC", "WA", "CE", "TLE", "MLE", "OLE", "IR",
                               "RTE", "AB", "IE"})
        => /\ apc'[w] = "idle"
           /\ cache' = cache
           /\ events' = events]_vars

\* a call has returned on its unmapped result while the aggregate was cached
\* and well into its lifetime
C8_Witness ==
    \E w \in Workers :
        /\ aret[w] = 111
        /\ apc[w] = "idle"
        /\ cache[GlobalKey].present
        /\ ~cache[GlobalKey].fresh
        /\ cache[GlobalKey].value = get_result_data(subs)
        /\ events = <<>>

\* C9: the cache write publishes nothing, a call that has written publishes
\* exactly one event before it returns (channel 'submissions', type
\* 'change-global-stats', the category code and the delta), and nothing else
\* publishes.
C9_OneEventAfterWrite ==
    [][LET Published(w) ==
             [channel |-> "submissions",
              message |-> [type |-> "change-global-stats",
                           result_type |->
                              IF aresult[w] \in {"AC", "WA", "CE", "TLE"}
                              THEN aresult[w] ELSE "ERR",
                           delta |-> adelta[w]]]
       IN  /\ \A w \in Workers :
                (apc[w] # "written" /\ apc'[w] = "written")
                => /\ apc[w] = "got"
                   /\ cache'[GlobalKey].present
                   /\ cache'[GlobalKey].fresh
                   /\ events' = events
           /\ \A w \in Workers :
                (apc[w] = "written" /\ apc'[w] # "written")
                => /\ apc'[w] = "idle"
                   /\ events' = Append(events, Published(w))
                   /\ cache' = cache
           /\ events' # events
                => \E w \in Workers : apc[w] = "written" /\ apc'[w] = "idle"
      ]_vars

\* an RTE delta has been published as category ERR after its write
C9_Witness ==
    /\ Len(events) = 2
    /\ events[2].message.result_type = "ERR"
    /\ events[2].message.delta = -1
    /\ \E w \in Workers : aret[w] = 131

\* C23: add_to_result_data is a get followed by a set with nothing held in
\* between: whatever the entry has become since the worker read it, the
\* worker writes the aggregate it read with its own delta applied, so that
\* a write made by another worker in between is lost.
C23_SetWritesOverWhatWasRead ==
    [][\A w \in Workers :
        (apc[w] = "got" /\ apc'[w] = "written")
        => /\ cache'[GlobalKey].present
           /\ cache'[GlobalKey].value =
                ApplyToCategory(adata[w], RESULT_TO_TYPE[aresult[w]],
                                adelta[w])]_vars

\* two calls ('AC', +1) by two workers have both published their event, and
\* the cached aggregate counts one accepted submission more than the store,
\* not two
C23_Witness ==
    /\ \A w \in Workers : apc[w] = "idle" /\ aret[w] = 131
    /\ Len(events) = 2
    /\ \A i \in DOMAIN events :
            /\ events[i].message.result_type = "AC"
            /\ events[i].message.delta = 1
    /\ cache[GlobalKey].present
    /\ cache[GlobalKey].value.total = get_result_data(subs).total + 1
    /\ CategoryAt(cache[GlobalKey].value, 1).count =
            CategoryAt(get_result_data(subs), 1).count + 1

\* the counts of the categories of an aggregate, added up
CategorySum(data) ==
    SumOver([i \in DOMAIN data.categories |-> CategoryAt(data, i).count],
            DOMAIN data.categories)

\* C26: whenever the global entry is in the cache it has five categories and
\* its total is the sum of their counts: as get_result_data computed it over
\* a store whose results are all enumerated (or missing), and after every
\* write of add_to_result_data, whichever way the workers' calls interleave.
C26_TotalIsSumOfCategories ==
    cache[GlobalKey].present
    => /\ Len(cache[GlobalKey].value.categories) = 5
       /\ cache[GlobalKey].value.total = CategorySum(cache[GlobalKey].value)

\* over a store with a row that has no result yet, one worker has written
\* its delta to the entry while the other still holds what it read before
C26_Witness ==
    /\ \E i \in DOMAIN subs : subs[i].result = None
    /\ \E w, v \in Workers :
            /\ apc[w] = "written"
            /\ apc[v] = "got"
            /\ adata[v] # cache[GlobalKey].value
    /\ cache[GlobalKey].present
    /\ cache[GlobalKey].value.total # get_result_data(subs).total

====
